---- MODULE Spec2Model ----
(***************************************************************************)
(* Model of the extension-listing scripts:                                 *)
(*   merge_riscv_extensions.py  (read_csv_file, merge_csv_files, main)     *)
(*   gen_txt2csv.py / gen_clang_txt2csv.py  (the text-to-CSV converters)   *)
(*                                                                         *)
(* Text values (cells, names, versions, descriptions, lines) are sequences *)
(* of one-character strings, so that stripping, concatenation and Python's *)
(* code-point string ordering are computed rather than assumed.            *)
(***************************************************************************)
EXTENDS Integers, Sequences, FiniteSets, TLC

\* ------------------------------------------------------------------ bounds

\* Most input files named on one merge command line.
MaxFiles == 2

\* Most data rows (after the header) over all input files of one merge.
MaxRows == 3

\* --------------------------------------------------------- text primitives

\* ord(c): Python compares str values code point by code point.
Code(c) ==
    CASE c = "\n" -> 10
      [] c = " " -> 32
      [] c = "," -> 44
      [] c = "-" -> 45
      [] c = "1" -> 49
      [] c = "2" -> 50
      [] c = "a" -> 97
      [] c = "b" -> 98
      [] c = "d" -> 100
      [] c = "e" -> 101
      [] c = "v" -> 118
      [] c = "z" -> 122

\* str.isspace() of one character.
IsSpace(c) == c \in {" ", "\n"}

\* str.isdigit() of one character.
IsDigit(c) == c \in {"1", "2"}

RECURSIVE LStrip(_)
LStrip(s) ==
    IF s = <<>> THEN <<>>
    ELSE IF IsSpace(Head(s)) THEN LStrip(Tail(s))
    ELSE s

RECURSIVE RStrip(_)
RStrip(s) ==
    IF s = <<>> THEN <<>>
    ELSE IF IsSpace(s[Len(s)]) THEN RStrip(SubSeq(s, 1, Len(s) - 1))
    ELSE s

\* str.strip(): leading and trailing whitespace removed.
Strip(s) == RStrip(LStrip(s))

\* s < t for two str values (lexicographic on code points; a proper prefix is smaller).
RECURSIVE StrLess(_, _)
StrLess(s, t) ==
    IF t = <<>> THEN FALSE
    ELSE IF s = <<>> THEN TRUE
    ELSE IF Code(Head(s)) < Code(Head(t)) THEN TRUE
    ELSE IF Code(Head(s)) > Code(Head(t)) THEN FALSE
    ELSE StrLess(Tail(s), Tail(t))

\* ------------------------------------------- merge_riscv_extensions: inputs

\* Paths the glob expansion can return: two directories, two stems.
Paths ==
    { [dir |-> "p", stem |-> "x", ext |-> ".csv"],
      [dir |-> "q", stem |-> "x", ext |-> ".csv"],
      [dir |-> "p", stem |-> "y", ext |-> ".csv"] }

\* The lists of input files of one run: no path twice (a file listed twice would
\* be read twice with the same content).
InputLists ==
    { fs \in UNION { [1..n -> Paths] : n \in 0..MaxFiles } :
         \A m, n \in 1..Len(fs) : fs[m] = fs[n] => m = n }

\* Header rows as csv.reader returns them.
HeaderForms ==
    { <<"Name", "Version", "Description">>,
      <<"Name", "Version">>,
      <<"Version", "Description">> }

\* Data rows as csv.reader returns them (a list of cells each).
RowForms ==
    { << <<"a">>, <<"1">>, <<"d">> >>,
      << <<"a">>, <<"1">>, <<"e">> >>,
      << <<"a">>, <<"1">> >>,
      << <<" ", "a">>, <<"2">>, <<>> >>,
      << <<"b">>, <<"1">>, <<"d">> >>,
      << <<"a", "-">>, <<"1">> >>,
      << <<"a">>, <<"-", "1">>, <<"e">> >>,
      << <<"a">> >> }

VARIABLES
    pc,                  \* position of the run
    include_description, \* not args.no_description
    input_files,         \* main: the expanded list of input paths
    files,               \* what each input file held when it was read: [headers, rows]
    i,                   \* index of the loop over input_files
    extensions,          \* read_csv_file: the dict being built (insertion-ordered)
    all_extensions,      \* merge_csv_files: the accumulated dict (insertion-ordered)
    file_sources,        \* merge_csv_files: the column names, one per input file
    k,                   \* index of the loop over extensions.items()
    output_opened,       \* the output file has been opened for writing
    output,              \* what the output file holds: [headers, rows]
    failed_reads,        \* indices of input files whose open/read raised
    read_done,           \* indices of input files for which read_csv_file returned
    exit_code            \* the process exit status, -1 while running

vars == << pc, include_description, input_files, files, i, extensions,
           all_extensions, file_sources, k, output_opened, output,
           failed_reads, read_done, exit_code >>

\* The variables of a converter run (gen_txt2csv.py or gen_clang_txt2csv.py).
VARIABLES
    tpc,        \* position of the converter run
    mode,       \* which converter runs: "lenient" (gen_txt2csv) or "strict" (gen_clang_txt2csv)
    line,       \* the line read last, as the file iteration returned it
    trows,      \* rows, without the header row it starts with
    emitted,    \* the rows the line read last appended
    nlines,     \* lines read so far
    tfail,      \* "none", or why the run ended early: "missing" input, "fs" error
    toutput,    \* what the output file holds, NoTable until it is written
    texit       \* the process exit status, -1 while running

tvars == << tpc, mode, line, trows, emitted, nlines, tfail, toutput, texit >>

\* The variables of a run of merge_csv_multi_sort.py.
VARIABLES
    mpc,            \* position of the run
    minput_files,   \* main: input_files
    mfiles,         \* what each input file holds, once it was read: [headers, rows]
    mi,             \* index of the loop over input_files[1:]
    key_columns,    \* main: key_columns
    merged_df,      \* main: merged_df, [columns, flag_columns, rows]
    moutput,        \* what the output file holds, NoTable until it is written
    mexit           \* the process exit status, -1 while running

mvars == << mpc, minput_files, mfiles, mi, key_columns, merged_df, moutput, mexit >>

allvars == << vars, tvars, mvars >>

\* ------------------------------------------------ insertion-ordered dict

\* Position of key in the dict d (a sequence of [key, val]), 0 when absent.
DictIndex(d, key) ==
    IF \E n \in 1..Len(d) : d[n].key = key
    THEN CHOOSE n \in 1..Len(d) : d[n].key = key
    ELSE 0

\* A faulty d[key] = val that leaves the value of an existing key alone.
DictSetKeepFirst(d, key, val) ==
    IF DictIndex(d, key) = 0
    THEN Append(d, [key |-> key, val |-> val])
    ELSE d

\* d[key] = val: a new key is appended, an existing key keeps its position.
DictSet(d, key, val) ==
    IF DictIndex(d, key) = 0
    THEN Append(d, [key |-> key, val |-> val])
    ELSE [d EXCEPT ![DictIndex(d, key)] = [key |-> key, val |-> val]]

\* ------------------------------------------------------- read_csv_file

\* key = f"{name}-{version}"
Key(name, version) == name \o <<"-">> \o version

\* 'Description' in headers
HasDescription(headers) == \E n \in 1..Len(headers) : headers[n] = "Description"

\* One iteration of `for row in reader` on the dict built so far.
ProcessRow(exts, has_description, row) ==
    IF Len(row) < 2 THEN exts
    ELSE LET name == Strip(row[1])
             version == Strip(row[2])
             description == IF has_description /\ Len(row) > 2 THEN row[3] ELSE <<>>
         IN  DictSet(exts, Key(name, version),
                     [name |-> name, version |-> version, description |-> description])

\* read_csv_file on a whole file: the rows folded from the empty dict.
RECURSIVE ReadRows(_, _, _)
ReadRows(exts, has_description, rows) ==
    IF rows = <<>> THEN exts
    ELSE ReadRows(ProcessRow(exts, has_description, Head(rows)), has_description, Tail(rows))

read_csv_file(file) == ReadRows(<<>>, HasDescription(file.headers), file.rows)

\* ----------------------------------------------------- merge_csv_files

\* os.path.splitext(os.path.basename(input_file))[0]
column_name(path) == path.stem

\* A faulty iteration that marks the source only when the key is new (line 71
\* indented into the first branch).
MergeEntryKeepFirstSources(all, entry, column) ==
    LET n == DictIndex(all, entry.key)
    IN  IF n = 0
        THEN Append(all, [key |-> entry.key,
                          val |-> [name |-> entry.val.name,
                                   version |-> entry.val.version,
                                   description |-> entry.val.description,
                                   sources |-> {column}]])
        ELSE IF all[n].val.description = <<>> /\ entry.val.description # <<>>
        THEN [all EXCEPT ![n].val.description = entry.val.description]
        ELSE all

\* A faulty iteration in which a later non-empty description replaces the one
\* stored (the test on the stored description dropped from line 68).
MergeEntryOverwritesDescription(all, entry, column) ==
    LET n == DictIndex(all, entry.key)
        inserted ==
            IF n = 0
            THEN Append(all, [key |-> entry.key,
                              val |-> [name |-> entry.val.name,
                                       version |-> entry.val.version,
                                       description |-> entry.val.description,
                                       sources |-> {}]])
            ELSE IF entry.val.description # <<>>
            THEN [all EXCEPT ![n].val.description = entry.val.description]
            ELSE all
        m == DictIndex(inserted, entry.key)
    IN  [inserted EXCEPT ![m].val.sources = @ \cup {column}]

\* One iteration of `for key, ext_data in extensions.items()`.
MergeEntry(all, entry, column) ==
    LET n == DictIndex(all, entry.key)
        inserted ==
            IF n = 0
            THEN Append(all, [key |-> entry.key,
                              val |-> [name |-> entry.val.name,
                                       version |-> entry.val.version,
                                       description |-> entry.val.description,
                                       sources |-> {}]])
            ELSE IF all[n].val.description = <<>> /\ entry.val.description # <<>>
            THEN [all EXCEPT ![n].val.description = entry.val.description]
            ELSE all
        m == DictIndex(inserted, entry.key)
    IN  [inserted EXCEPT ![m].val.sources = @ \cup {column}]

\* A faulty sort key (version, name).
SortKeyLessVersionFirst(a, b) ==
    \/ StrLess(a.version, b.version)
    \/ a.version = b.version /\ StrLess(a.name, b.name)

\* a < b for the sort key (name, version): Python's tuple comparison.
SortKeyLess(a, b) ==
    \/ StrLess(a.name, b.name)
    \/ a.name = b.name /\ StrLess(a.version, b.version)

\* Insert e into the sorted sequence s after every element not greater than it.
RECURSIVE InsertSorted(_, _)
InsertSorted(s, e) ==
    IF s = <<>> THEN <<e>>
    ELSE IF SortKeyLess(e.val, Head(s).val) THEN <<e>> \o s
    ELSE <<Head(s)>> \o InsertSorted(Tail(s), e)

RECURSIVE SortedFrom(_, _)
SortedFrom(acc, rest) ==
    IF rest = <<>> THEN acc
    ELSE SortedFrom(InsertSorted(acc, Head(rest)), Tail(rest))

\* sorted(all_extensions.keys(), key=(name, version)): a stable sort of the entries.
SortedEntries(all) == SortedFrom(<<>>, all)

\* The header row written.
OutputHeaders(incl, sources) ==
    (IF incl THEN <<"Name", "Version", "Description">> ELSE <<"Name", "Version">>)
    \o sources

\* One output row: the text cells, then 'Y'/'N' per entry of file_sources.
OutputRow(incl, sources, ext) ==
    [cells |-> IF incl THEN <<ext.name, ext.version, ext.description>>
               ELSE <<ext.name, ext.version>>,
     flags |-> [n \in 1..Len(sources) |->
                   IF sources[n] \in ext.sources THEN "Y" ELSE "N"]]

\* Everything written between open(output_file) and its close.
OutputTable(incl, sources, all) ==
    [headers |-> OutputHeaders(incl, sources),
     rows |-> LET s == SortedEntries(all)
              IN  [n \in 1..Len(s) |-> OutputRow(incl, sources, s[n].val)]]

\* merge_csv_files as a function of the paths and of what the files hold.
RECURSIVE MergeExtensions(_, _, _)
MergeExtensions(all, exts, column) ==
    IF exts = <<>> THEN all
    ELSE MergeExtensions(MergeEntry(all, Head(exts), column), Tail(exts), column)

RECURSIVE MergeAll(_, _, _)
MergeAll(all, paths, contents) ==
    IF paths = <<>> THEN all
    ELSE MergeAll(MergeExtensions(all, read_csv_file(Head(contents)), column_name(Head(paths))),
                  Tail(paths), Tail(contents))

merge_csv_files(paths, contents, incl) ==
    OutputTable(incl, [n \in 1..Len(paths) |-> column_name(paths[n])],
                MergeAll(<<>>, paths, contents))

\* ------------------------------------------------------------ the run

RECURSIVE TotalRows(_)
TotalRows(fs) == IF fs = <<>> THEN 0 ELSE Len(Head(fs).rows) + TotalRows(Tail(fs))

NoTable == [headers |-> <<>>, rows |-> <<>>]

Init ==
    /\ pc = "main"
    /\ include_description \in BOOLEAN
    /\ input_files = <<>>
    /\ files = <<>>
    /\ i = 0
    /\ extensions = <<>>
    /\ all_extensions = <<>>
    /\ file_sources = <<>>
    /\ k = 0
    /\ output_opened = FALSE
    /\ output = NoTable
    /\ failed_reads = {}
    /\ read_done = {}
    /\ exit_code = -1
    /\ tpc = "idle"
    /\ mode = "none"
    /\ line = <<>>
    /\ trows = <<>>
    /\ emitted = <<>>
    /\ nlines = 0
    /\ tfail = "none"
    /\ toutput = NoTable
    /\ texit = -1
    /\ mpc = "idle"
    /\ minput_files = <<>>
    /\ mfiles = <<>>
    /\ mi = 0
    /\ key_columns = <<>>
    /\ merged_df = [columns |-> <<>>, flag_columns |-> <<>>, rows |-> <<>>]
    /\ moutput = [headers |-> <<>>, rows |-> <<>>]
    /\ mexit = -1

\* main: the glob expansion, and `return 1` when nothing matched.
ExpandInputs ==
    /\ pc = "main"
    /\ \E fs \in InputLists :
          /\ input_files' = fs
          /\ IF fs = <<>>
             THEN pc' = "done" /\ exit_code' = 1 /\ i' = i
             ELSE pc' = "validate" /\ exit_code' = exit_code /\ i' = 1
    /\ UNCHANGED << include_description, files, extensions, all_extensions,
                    file_sources, k, output_opened, output, failed_reads, read_done >>
    /\ UNCHANGED << tvars, mvars >>

\* main: os.path.isfile on each expanded path, `return 1` on the first that is not a file.
ValidateInput ==
    /\ pc = "validate"
    /\ \E isfile \in BOOLEAN :
          IF ~isfile
          THEN pc' = "done" /\ exit_code' = 1 /\ i' = i
          ELSE IF i < Len(input_files)
          THEN pc' = "validate" /\ exit_code' = exit_code /\ i' = i + 1
          ELSE pc' = "open_input" /\ exit_code' = exit_code /\ i' = 1
    /\ UNCHANGED << include_description, input_files, files, extensions, all_extensions,
                    file_sources, k, output_opened, output, failed_reads, read_done >>
    /\ UNCHANGED << tvars, mvars >>

\* A faulty handling that catches the exception and goes on with the next file.
ReadErrorSkipsFile ==
    /\ failed_reads' = failed_reads \cup {i}
    /\ files' = IF Len(files) < i THEN Append(files, [headers |-> <<>>, rows |-> <<>>]) ELSE files
    /\ extensions' = <<>>
    /\ pc' = "merge"
    /\ k' = 1
    /\ read_done' = read_done
    /\ exit_code' = exit_code

\* An exception raised while reading input file i is caught nowhere: the
\* interpreter prints the traceback and exits with status 1.
ReadError ==
    /\ failed_reads' = failed_reads \cup {i}
    /\ files' = files
    /\ extensions' = extensions
    /\ pc' = "done"
    /\ k' = k
    /\ read_done' = read_done
    /\ exit_code' = 1

\* merge_csv_files: the column name is recorded, the file opened and its header read.
OpenInput ==
    /\ pc = "open_input"
    /\ file_sources' = Append(file_sources, column_name(input_files[i]))
    /\ \E h \in HeaderForms :
          files' = Append(files, [headers |-> h, rows |-> <<>>])
    /\ extensions' = <<>>
    /\ pc' = "rows"
    /\ UNCHANGED << include_description, input_files, i, all_extensions, k,
                    output_opened, output, failed_reads, read_done, exit_code >>
    /\ UNCHANGED << tvars, mvars >>

\* open() raises OSError, or next(reader) raises StopIteration on an empty file.
OpenInputFails ==
    /\ pc = "open_input"
    /\ file_sources' = Append(file_sources, column_name(input_files[i]))
    /\ ReadError
    /\ UNCHANGED << include_description, input_files, i, all_extensions,
                    output_opened, output >>
    /\ UNCHANGED << tvars, mvars >>

\* read_csv_file: one data row of the file.
ReadRow ==
    /\ pc = "rows"
    /\ TotalRows(files) < MaxRows
    /\ \E row \in RowForms :
          /\ files' = [files EXCEPT ![i].rows = Append(@, row)]
          /\ extensions' = ProcessRow(extensions, HasDescription(files[i].headers), row)
    /\ UNCHANGED << pc, include_description, input_files, i, all_extensions,
                    file_sources, k, output_opened, output, failed_reads, read_done, exit_code >>
    /\ UNCHANGED << tvars, mvars >>

\* The reader raises in the middle of the file (a decoding or csv error).
ReadRowFails ==
    /\ pc = "rows"
    /\ ReadError
    /\ UNCHANGED << include_description, input_files, i, all_extensions,
                    file_sources, output_opened, output >>
    /\ UNCHANGED << tvars, mvars >>

\* read_csv_file returns; the loop over extensions.items() starts.
EndRows ==
    /\ pc = "rows"
    /\ pc' = "merge"
    /\ k' = 1
    /\ read_done' = read_done \cup {i}
    /\ UNCHANGED << include_description, input_files, files, i, extensions, all_extensions,
                    file_sources, output_opened, output, failed_reads, exit_code >>
    /\ UNCHANGED << tvars, mvars >>

\* merge_csv_files: one key of the file just read.
MergeKey ==
    /\ pc = "merge"
    /\ k <= Len(extensions)
    /\ all_extensions' = MergeEntry(all_extensions, extensions[k], file_sources[i])
    /\ k' = k + 1
    /\ UNCHANGED << pc, include_description, input_files, files, i, extensions,
                    file_sources, output_opened, output, failed_reads, read_done, exit_code >>
    /\ UNCHANGED << tvars, mvars >>

\* The loop over input_files advances, or ends.
NextFile ==
    /\ pc = "merge"
    /\ k > Len(extensions)
    /\ IF i < Len(input_files)
       THEN pc' = "open_input" /\ i' = i + 1
       ELSE pc' = "open_output" /\ i' = i
    /\ UNCHANGED << include_description, input_files, files, extensions, all_extensions,
                    file_sources, k, output_opened, output, failed_reads, read_done, exit_code >>
    /\ UNCHANGED << tvars, mvars >>

\* open(output_file, 'w'): the file is created or truncated.
OpenOutput ==
    /\ pc = "open_output"
    /\ output_opened' = TRUE
    /\ output' = NoTable
    /\ pc' = "write"
    /\ UNCHANGED << include_description, input_files, files, i, extensions, all_extensions,
                    file_sources, k, failed_reads, read_done, exit_code >>
    /\ UNCHANGED << tvars, mvars >>

\* open(output_file, 'w') raises: uncaught, exit status 1.
OpenOutputFails ==
    /\ pc = "open_output"
    /\ pc' = "done"
    /\ exit_code' = 1
    /\ UNCHANGED << include_description, input_files, files, i, extensions, all_extensions,
                    file_sources, k, output_opened, output, failed_reads, read_done >>
    /\ UNCHANGED << tvars, mvars >>

\* The header and the sorted rows are written; merge_csv_files returns and main returns 0.
WriteOutput ==
    /\ pc = "write"
    /\ output' = OutputTable(include_description, file_sources, all_extensions)
    /\ pc' = "done"
    /\ exit_code' = 0
    /\ UNCHANGED << include_description, input_files, files, i, extensions, all_extensions,
                    file_sources, k, output_opened, failed_reads, read_done >>
    /\ UNCHANGED << tvars, mvars >>

Next ==
    \/ ExpandInputs
    \/ ValidateInput
    \/ OpenInput
    \/ OpenInputFails
    \/ ReadRow
    \/ ReadRowFails
    \/ EndRows
    \/ MergeKey
    \/ NextFile
    \/ OpenOutput
    \/ OpenOutputFails
    \/ WriteOutput

\* The run ended with the output written.
Merged == pc = "done" /\ exit_code = 0

\* The table written is the one merge_csv_files computes from the inputs read.
OutputIsMerge ==
    Merged => output = merge_csv_files(input_files, files, include_description)

\* ------------------------------------------------ properties of the merge

\* The derived key of an output row.
RowKey(r) == Key(r.cells[1], r.cells[2])

\* The data rows of a file: those read_csv_file does not skip.
DataRows(file) == SelectSeq(file.rows, LAMBDA row : Len(row) >= 2)

\* The derived key of a data row.
DataRowKey(row) == Key(Strip(row[1]), Strip(row[2]))

\* The description a data row carries in a file with the given header.
DataRowDescription(file, row) ==
    IF HasDescription(file.headers) /\ Len(row) > 2 THEN row[3] ELSE <<>>

FileHasKey(file, key) ==
    \E n \in 1..Len(file.rows) :
        Len(file.rows[n]) >= 2 /\ DataRowKey(file.rows[n]) = key

\* C1: in the merged output, for every row and every input file, the file's
\* column holds "Y" if and only if the file has a data row with the row's key,
\* and "N" otherwise, for any list of input files (also with a shared base name).
C1_PresenceIffFileHasKey ==
    Merged =>
        \A r \in 1..Len(output.rows) : \A f \in 1..Len(input_files) :
            output.rows[r].flags[f] =
                IF FileHasKey(files[f], RowKey(output.rows[r])) THEN "Y" ELSE "N"

\* The (key, description) pairs of all data rows, files in input order, rows in file order.
RECURSIVE ScannedRows(_)
ScannedRows(fs) ==
    IF fs = <<>> THEN <<>>
    ELSE LET rows == DataRows(Head(fs))
         IN  [n \in 1..Len(rows) |->
                 [key |-> DataRowKey(rows[n]),
                  description |-> DataRowDescription(Head(fs), rows[n])]]
             \o ScannedRows(Tail(fs))

\* The first non-empty description of the key in the scan, empty when there is none.
FirstNonEmptyDescription(scan, key) ==
    LET hits == { n \in 1..Len(scan) : scan[n].key = key /\ scan[n].description # <<>> }
    IN  IF hits = {} THEN <<>>
        ELSE scan[CHOOSE n \in hits : \A m \in hits : n <= m].description

\* C2: for every key of the merged output, the description written is the first
\* non-empty description met for the key when all rows are scanned in
\* source-processing order (empty only if no row of the key has one).
C2_FirstNonEmptyDescriptionWins ==
    (Merged /\ include_description) =>
        \A r \in 1..Len(output.rows) :
            output.rows[r].cells[3] =
                FirstNonEmptyDescription(ScannedRows(files), RowKey(output.rows[r]))

\* (name, version) of r1 is not greater than that of r2, as strings.
RowLeq(r1, r2) ==
    \/ StrLess(r1.cells[1], r2.cells[1])
    \/ /\ r1.cells[1] = r2.cells[1]
       /\ (StrLess(r1.cells[2], r2.cells[2]) \/ r1.cells[2] = r2.cells[2])

\* C3: the data rows written are in ascending order of (name, version) under
\* string-lexicographic comparison, name first, then version.
C3_OutputSorted ==
    Merged =>
        \A r \in 1..(Len(output.rows) - 1) : RowLeq(output.rows[r], output.rows[r + 1])

\* C3 witness: an output whose order the sort produced: the names of two consecutive
\* rows and their versions are ordered in opposite ways, and the rows were
\* first met in the opposite order.
C3_Witness ==
    /\ Merged
    /\ \E r \in 1..(Len(output.rows) - 1) :
          /\ StrLess(output.rows[r].cells[1], output.rows[r + 1].cells[1])
          /\ StrLess(output.rows[r + 1].cells[2], output.rows[r].cells[2])
          /\ DictIndex(all_extensions, RowKey(output.rows[r + 1]))
                < DictIndex(all_extensions, RowKey(output.rows[r]))

\* The output row of one parsed (name, version, description) of a single input file.
SingleFileRow(name, version, description) ==
    [cells |-> IF include_description THEN <<name, version, description>>
               ELSE <<name, version>>,
     flags |-> <<"Y">>]

\* C4 as stated: merging one input file yields the file's parsed content, same
\* rows in the same order, plus one presence column that is "Y" in every row.
C4_SingleFileIdentical ==
    (Merged /\ Len(input_files) = 1) =>
        LET rows == DataRows(files[1])
        IN  output.rows =
                [n \in 1..Len(rows) |->
                    SingleFileRow(Strip(rows[n][1]), Strip(rows[n][2]),
                                  DataRowDescription(files[1], rows[n]))]

\* The data rows of a file that no later data row of the file shares its key with.
LastPerKey(file) ==
    LET rows == DataRows(file)
    IN  { n \in 1..Len(rows) :
            \A m \in (n + 1)..Len(rows) : DataRowKey(rows[m]) # DataRowKey(rows[n]) }

\* C4 amended: merging one input file yields one row per distinct key of the
\* file's data rows, with the name, version and description of the last data row
\* of that key, in ascending (name, version) order, and one presence column that
\* is "Y" in every row.
C4_SingleFileSortedLastPerKey ==
    (Merged /\ Len(input_files) = 1) =>
        LET rows == DataRows(files[1])
            last == LastPerKey(files[1])
        IN  /\ Len(output.rows) = Cardinality(last)
            /\ { output.rows[r] : r \in 1..Len(output.rows) } =
                 { SingleFileRow(Strip(rows[n][1]), Strip(rows[n][2]),
                                 DataRowDescription(files[1], rows[n])) : n \in last }
            /\ \A r \in 1..(Len(output.rows) - 1) :
                   RowLeq(output.rows[r], output.rows[r + 1])

\* C4 witness: one input file whose data rows repeat a key with another description
\* and are not in sorted order, merged into two output rows.
C4_Witness ==
    /\ Merged
    /\ Len(input_files) = 1
    /\ include_description
    /\ Len(output.rows) = 2
    /\ Len(DataRows(files[1])) = 3
    /\ Cardinality(LastPerKey(files[1])) = 2
    /\ \E n \in 1..2 :
          /\ DataRowKey(DataRows(files[1])[n]) = DataRowKey(DataRows(files[1])[3])
          /\ DataRowDescription(files[1], DataRows(files[1])[n])
                # DataRowDescription(files[1], DataRows(files[1])[3])
    /\ DataRowKey(DataRows(files[1])[1]) # RowKey(output.rows[1])

\* C5: merging [A, B] and merging [B, A] give the same set of keys and, for each
\* key, the same flag under A's column and the same flag under B's column.
C5_MergeCommutes ==
    (Merged /\ Len(input_files) = 2) =>
        LET swapped == merge_csv_files(<<input_files[2], input_files[1]>>,
                                       <<files[2], files[1]>>, include_description)
        IN  /\ { RowKey(output.rows[r]) : r \in 1..Len(output.rows) } =
                 { RowKey(swapped.rows[r]) : r \in 1..Len(swapped.rows) }
            /\ Len(output.rows) = Len(swapped.rows)
            /\ \A r \in 1..Len(output.rows) : \A t \in 1..Len(swapped.rows) :
                   RowKey(output.rows[r]) = RowKey(swapped.rows[t]) =>
                       /\ output.rows[r].flags[1] = swapped.rows[t].flags[2]
                       /\ output.rows[r].flags[2] = swapped.rows[t].flags[1]

\* C5 witness: two files with different column names, a key in both and a key in
\* only one of them.
C5_Witness ==
    /\ Merged
    /\ Len(input_files) = 2
    /\ file_sources[1] # file_sources[2]
    /\ \E r \in 1..Len(output.rows) : output.rows[r].flags = <<"Y", "Y">>
    /\ \E r \in 1..Len(output.rows) : output.rows[r].flags = <<"N", "Y">>

HasKeyColumns(headers) ==
    /\ \E n \in 1..Len(headers) : headers[n] = "Name"
    /\ \E n \in 1..Len(headers) : headers[n] = "Version"

\* C7: a merge input whose header lacks a key column is fatal: the merge aborts before
\* any output is written and no row of that file contributes a key or a flag.
C7_SchemaMismatchIsFatal ==
    \A f \in 1..Len(files) :
        ~HasKeyColumns(files[f].headers) =>
            /\ ~output_opened
            /\ exit_code # 0
            /\ \A n \in 1..Len(all_extensions) :
                   file_sources[f] \notin all_extensions[n].val.sources

\* What one step does to the entry of all_extensions at position n: the key
\* stays at its position with its name and version, the presence set keeps
\* every source it had, and the description is left alone unless it was empty.
EntryOnlyGrows(n) ==
    /\ n <= Len(all_extensions')
    /\ all_extensions'[n].key = all_extensions[n].key
    /\ all_extensions'[n].val.name = all_extensions[n].val.name
    /\ all_extensions'[n].val.version = all_extensions[n].val.version
    /\ all_extensions[n].val.sources \subseteq all_extensions'[n].val.sources
    /\ all_extensions'[n].val.description # all_extensions[n].val.description =>
           /\ all_extensions[n].val.description = <<>>
           /\ all_extensions'[n].val.description # <<>>

\* C11: while merge_csv_files goes through its sources the accumulated table only
\* grows: a key once in all_extensions stays with its name and version, its
\* presence set never loses a source, and its description changes at most once,
\* from empty to non-empty, and never after it is non-empty.
C11_TableOnlyGrows ==
    [][\A n \in 1..Len(all_extensions) : EntryOnlyGrows(n)]_allvars

\* C11 witness: the second file has just been merged into a key the first file
\* stored with an empty description; the key now carries the second file's
\* description and both sources, and another key of the first file is untouched.
C11_Witness ==
    /\ pc = "merge"
    /\ i = 2
    /\ k > Len(extensions)
    /\ file_sources[1] # file_sources[2]
    /\ \E n \in 1..Len(all_extensions) :
          LET first == read_csv_file(files[1])
              m == DictIndex(first, all_extensions[n].key)
          IN  /\ m # 0
              /\ first[m].val.description = <<>>
              /\ all_extensions[n].val.description # <<>>
              /\ all_extensions[n].val.sources = {file_sources[1], file_sources[2]}
    /\ \E n \in 1..Len(all_extensions) :
          /\ all_extensions[n].val.description # <<>>
          /\ all_extensions[n].val.sources = {file_sources[1]}

\* The stripped (name, version) pairs of the data rows of all the files read.
NameVersionPairs ==
    UNION { { <<Strip(DataRows(files[f])[n][1]), Strip(DataRows(files[f])[n][2])>> :
                n \in 1..Len(DataRows(files[f])) } : f \in 1..Len(files) }

\* C12: two input rows with different (name, version) pairs never share an output
\* row: the output has as many rows as there are distinct stripped
\* (name, version) pairs over all inputs, and every pair has a row of its own.
C12_KeyInjective ==
    Merged =>
        /\ Len(output.rows) = Cardinality(NameVersionPairs)
        /\ \A p \in NameVersionPairs : \E r \in 1..Len(output.rows) :
               output.rows[r].cells[1] = p[1] /\ output.rows[r].cells[2] = p[2]

\* ================================================================ converters
\* gen_txt2csv.py (lenient) and gen_clang_txt2csv.py (strict)

\* Longest line body (without its line break) drawn from LineChars.
MaxLineLen == 8

\* Most lines of one input text file.
MaxLines == 1

\* The characters generated lines are made of: a letter, a digit, the comma, the blank.
LineChars == {"z", "1", ",", " "}

\* Every line body over LineChars up to the bound.
GeneratedLines == UNION { [1..n -> LineChars] : n \in 0..MaxLineLen }

\* Header and boilerplate lines of a compiler listing.
BoilerplateLines ==
    { <<"N", "a", "m", "e", " ", "V", "e", "r", "s", "i", "o", "n">>,
      <<"N", "a", "m", "e", " ", "V", "e", "r", "s", "i", "o", "n", " ", "D", "e", "s", "c",
        "r", "i", "p", "t", "i", "o", "n">>,
      <<"S", "u", "p", "p", "o", "r", "t", "e", "d", " ", "e", "x", "t", "e", "n", "s", "i",
        "o", "n", "s">>,
      <<"E", "x", "p", "e", "r", "i", "m", "e", "n", "t", "a", "l", " ", "e", "x", "t", "e",
        "n", "s", "i", "o", "n", "s">>,
      <<"E", "x", "p", "e", "r", "i", "m", "e", "n", "t", "a", "l">> }

\* Number of whitespace characters of s from position p on, up to the first other one.
RECURSIVE WsRun(_, _)
WsRun(s, p) ==
    IF p > Len(s) THEN 0
    ELSE IF IsSpace(s[p]) THEN 1 + WsRun(s, p + 1)
    ELSE 0

\* Number of non-whitespace characters of s from position p on, up to the first whitespace.
RECURSIVE NsRun(_, _)
NsRun(s, p) ==
    IF p > Len(s) THEN 0
    ELSE IF ~IsSpace(s[p]) THEN 1 + NsRun(s, p + 1)
    ELSE 0

\* s[p:]
From(s, p) == SubSeq(s, p, Len(s))

\* str.split(): the whitespace-delimited tokens.
RECURSIVE Tokens(_)
Tokens(s) ==
    LET a == WsRun(s, 1)
        n == NsRun(s, a + 1)
    IN  IF n = 0 THEN <<>>
        ELSE <<SubSeq(s, a + 1, a + n)>> \o Tokens(From(s, a + n + 1))

\* ' '.join(parts)
RECURSIVE Join(_)
Join(parts) ==
    IF parts = <<>> THEN <<>>
    ELSE IF Len(parts) = 1 THEN parts[1]
    ELSE parts[1] \o <<" ">> \o Join(Tail(parts))

\* sub in s
Contains(s, sub) ==
    \E p \in 0..(Len(s) - Len(sub)) : SubSeq(s, p + 1, p + Len(sub)) = sub

\* s.split(c) for a one-character separator.
RECURSIVE SplitOn(_, _)
SplitOn(s, c) ==
    IF \E p \in 1..Len(s) : s[p] = c
    THEN LET p == CHOOSE q \in 1..Len(s) : s[q] = c /\ \A r \in 1..(q - 1) : s[r] # c
         IN  <<SubSeq(s, 1, p - 1)>> \o SplitOn(From(s, p + 1), c)
    ELSE <<s>>

\* Where `$` matches: the end of the line, or just before a final line break.
LineEnd(s) == IF s # <<>> /\ s[Len(s)] = "\n" THEN Len(s) - 1 ELSE Len(s)

\* `.` matches everything but the line break.
NoLineBreak(s) == \A p \in 1..Len(s) : s[p] # "\n"

NoMatch == [matched |-> FALSE]

\* The token lists of the header patterns ^\s*Name\s+Version\s*$ and
\* ^\s*Name\s+Version\s+Description\s*$: a line matches when its tokens are these.
HeaderNameVersion == << <<"N", "a", "m", "e">>, <<"V", "e", "r", "s", "i", "o", "n">> >>

HeaderNameVersionDescription ==
    HeaderNameVersion \o << <<"D", "e", "s", "c", "r", "i", "p", "t", "i", "o", "n">> >>

\* ----------------------------------------------------- gen_clang_txt2csv.py

StrictSkipLines ==
    { <<"A", "l", "l", " ", "a", "v", "a", "i", "l", "a", "b", "l", "e", " ", "-", "m", "a",
        "r", "c", "h", " ", "e", "x", "t", "e", "n", "s", "i", "o", "n", "s", " ", "f",
        "o", "r", " ", "R", "I", "S", "C", "-", "V">>,
      <<"E", "x", "p", "e", "r", "i", "m", "e", "n", "t", "a", "l", " ", "e", "x", "t", "e",
        "n", "s", "i", "o", "n", "s">>,
      <<"U", "s", "e", " ", "-", "m", "a", "r", "c", "h", " ", "t", "o", " ", "s", "p", "e",
        "c", "i", "f", "y", " ", "t", "h", "e", " ", "t", "a", "r", "g", "e", "t", "'",
        "s", " ", "e", "x", "t", "e", "n", "s", "i", "o", "n", ".">>,
      <<"F", "o", "r", " ", "e", "x", "a", "m", "p", "l", "e", ",", " ", "c", "l", "a", "n",
        "g">> }

\* skip_lines and skip_patterns of the strict converter, on the line as read.
StrictNoise(ln) ==
    \/ \E t \in StrictSkipLines : Contains(ln, t)
    \/ Tokens(ln) = <<>>
    \/ Tokens(ln) = HeaderNameVersionDescription

\* a > b in the order the backtracking matcher tries the run lengths: every
\* quantifier of the pattern is greedy, so longer runs come first, left to right.
RECURSIVE TriedBefore(_, _)
TriedBefore(a, b) ==
    IF a = <<>> THEN FALSE
    ELSE IF Head(a) > Head(b) THEN TRUE
    ELSE IF Head(a) < Head(b) THEN FALSE
    ELSE TriedBefore(Tail(a), Tail(b))

\* All ways ^\s*(\S+)\s+(\S+)\s+(.+)$ matches the line: the lengths of the \s*,
\* (\S+), \s+, (\S+), \s+ runs, the rest being (.+).
StrictCandidates(ln) ==
    { t \in UNION { UNION { UNION { UNION {
          { <<a, n1, w1, n2, w2>> : w2 \in 1..WsRun(ln, a + n1 + w1 + n2 + 1) }
          : n2 \in 1..NsRun(ln, a + n1 + w1 + 1) }
          : w1 \in 1..WsRun(ln, a + n1 + 1) }
          : n1 \in 1..NsRun(ln, a + 1) }
          : a \in 0..WsRun(ln, 1) } :
        LET d == t[1] + t[2] + t[3] + t[4] + t[5] + 1
        IN  d <= LineEnd(ln) /\ NoLineBreak(SubSeq(ln, d, LineEnd(ln))) }

\* pattern.match(line).groups() of the strict converter.
StrictMatch(ln) ==
    LET c == StrictCandidates(ln)
    IN  IF c = {} THEN NoMatch
        ELSE LET t == CHOOSE u \in c : \A v \in c : v = u \/ TriedBefore(u, v)
                 p1 == t[1] + 1
                 p2 == t[1] + t[2] + t[3] + 1
                 d == t[1] + t[2] + t[3] + t[4] + t[5] + 1
             IN  [matched |-> TRUE,
                  name |-> SubSeq(ln, p1, p1 + t[2] - 1),
                  version |-> SubSeq(ln, p2, p2 + t[4] - 1),
                  description |-> SubSeq(ln, d, LineEnd(ln))]

\* The rows one line adds in the strict converter.
StrictRecords(ln) ==
    IF StrictNoise(ln) THEN <<>>
    ELSE LET m == StrictMatch(ln)
         IN  IF m.matched THEN << <<m.name, m.version, Strip(m.description)>> >>
             ELSE <<>>

\* ----------------------------------------------------------- gen_txt2csv.py

LenientSkipLines ==
    { <<"A", "l", "l", " ", "a", "v", "a", "i", "l", "a", "b", "l", "e", " ", "-", "m", "a",
        "r", "c", "h", " ", "e", "x", "t", "e", "n", "s", "i", "o", "n", "s", " ", "f",
        "o", "r", " ", "R", "I", "S", "C", "-", "V">>,
      <<"E", "x", "p", "e", "r", "i", "m", "e", "n", "t", "a", "l", " ">>,
      <<"S", "u", "p", "p", "o", "r", "t", "e", "d", " ">>,
      <<"U", "s", "e", " ", "-", "m", "a", "r", "c", "h", " ", "t", "o", " ", "s", "p", "e",
        "c", "i", "f", "y", " ", "t", "h", "e", " ", "t", "a", "r", "g", "e", "t", "'",
        "s", " ", "e", "x", "t", "e", "n", "s", "i", "o", "n", ".">>,
      <<"F", "o", "r", " ", "e", "x", "a", "m", "p", "l", "e", ",", " ", "c", "l", "a", "n",
        "g">> }

\* skip_lines and skip_patterns of the lenient converter, on the stripped line.
LenientNoise(ln) ==
    \/ \E t \in LenientSkipLines : Contains(ln, t)
    \/ Tokens(ln) = <<>>
    \/ Tokens(ln) = HeaderNameVersion
    \/ Tokens(ln) = HeaderNameVersionDescription

\* A faulty pattern whose name group is greedy, (\S+(?:\s+\S+)*): the name takes
\* every token but the last, which is left to the version.
LenientMatchGreedyName(ln) ==
    LET toks == Tokens(ln)
    IN  IF Len(toks) >= 2 /\ NoLineBreak(SubSeq(ln, 1, LineEnd(ln)))
        THEN [matched |-> TRUE,
              name |-> Join(SubSeq(toks, 1, Len(toks) - 1)),
              version |-> toks[Len(toks)],
              description |-> <<>>]
        ELSE NoMatch

\* pattern.match(line).groups() of the lenient converter,
\* ^\s*(\S+(?:\s+\S+)*?)\s+(\S+(?:,\s*\S+)*)\s*(.*)$ : the matcher first tries the
\* longest \S+ for the name with no lazy repetition, the longest \s+, the longest
\* \S+ for the version (after which no "," can follow, so no repetition), the
\* longest \s* and the rest as (.*). That attempt fails only when no whitespace
\* followed by a non-blank follows the first token, and then a lazy repetition
\* or a shorter \S+ finds no whitespace followed by a non-blank either.
LenientMatch(ln) ==
    LET a == WsRun(ln, 1)
        n1 == NsRun(ln, a + 1)
        w1 == WsRun(ln, a + n1 + 1)
        n2 == NsRun(ln, a + n1 + w1 + 1)
        w2 == WsRun(SubSeq(ln, 1, LineEnd(ln)), a + n1 + w1 + n2 + 1)
        d == a + n1 + w1 + n2 + w2 + 1
    IN  IF n1 >= 1 /\ w1 >= 1 /\ n2 >= 1 /\ NoLineBreak(SubSeq(ln, d, LineEnd(ln)))
        THEN [matched |-> TRUE,
              name |-> SubSeq(ln, a + 1, a + n1),
              version |-> SubSeq(ln, a + n1 + w1 + 1, a + n1 + w1 + n2),
              description |-> SubSeq(ln, d, LineEnd(ln))]
        ELSE NoMatch

\* version.endswith(',') and description.strip() and description.strip()[0].isdigit()
FalseSplit(version, description) ==
    /\ version # <<>>
    /\ version[Len(version)] = ","
    /\ Strip(description) # <<>>
    /\ IsDigit(Strip(description)[1])

\* The rows for one matched line, lines 55-80.
LenientExpand(name0, version0, description0) ==
    LET undo == FalseSplit(version0, description0)
        version1 == IF undo THEN version0 \o description0 ELSE version0
        description == IF undo THEN <<>> ELSE description0
        parts == Tokens(name0)
        move == /\ Strip(description) = <<>>
                /\ Contains(name0, <<" ">>)
                /\ Len(parts) >= 2
                /\ Strip(version1) = <<>>
        version == IF move THEN parts[Len(parts)] ELSE version1
        name == IF move THEN Join(SubSeq(parts, 1, Len(parts) - 1)) ELSE name0
    IN  IF Contains(version, <<",">>)
        THEN LET versions == SplitOn(version, ",")
                 kept == SelectSeq([n \in 1..Len(versions) |-> Strip(versions[n])],
                                   LAMBDA v : v # <<>>)
             IN  [n \in 1..Len(kept) |-> <<Strip(name), kept[n], Strip(description)>>]
        ELSE << <<Strip(name), Strip(version), Strip(description)>> >>

\* The rows of the fallback branch, lines 81-87.
LenientFallback(ln) ==
    LET parts == Tokens(ln)
    IN  IF ln # <<>> /\ Len(parts) >= 2
        THEN << <<Join(SubSeq(parts, 1, Len(parts) - 1)), parts[Len(parts)], <<>> >> >>
        ELSE <<>>

\* The rows one line adds in the lenient converter.
LenientRecords(raw) ==
    LET ln == Strip(raw)
    IN  IF LenientNoise(ln) THEN <<>>
        ELSE LET m == LenientMatch(ln)
             IN  IF m.matched THEN LenientExpand(m.name, m.version, m.description)
                 ELSE LenientFallback(ln)

\* ------------------------------------------------------ a converter run

TInit ==
    /\ tpc = "start"
    /\ mode \in {"lenient", "strict"}
    /\ line = <<>>
    /\ trows = <<>>
    /\ emitted = <<>>
    /\ nlines = 0
    /\ tfail = "none"
    /\ toutput = NoTable
    /\ texit = -1
    /\ pc = "idle"
    /\ include_description = TRUE
    /\ input_files = <<>>
    /\ files = <<>>
    /\ i = 0
    /\ extensions = <<>>
    /\ all_extensions = <<>>
    /\ file_sources = <<>>
    /\ k = 0
    /\ output_opened = FALSE
    /\ output = NoTable
    /\ failed_reads = {}
    /\ read_done = {}
    /\ exit_code = -1
    /\ mpc = "idle"
    /\ minput_files = <<>>
    /\ mfiles = <<>>
    /\ mi = 0
    /\ key_columns = <<>>
    /\ merged_df = [columns |-> <<>>, flag_columns |-> <<>>, rows |-> <<>>]
    /\ moutput = [headers |-> <<>>, rows |-> <<>>]
    /\ mexit = -1

\* The input path does not exist: the lenient converter checks os.path.exists and
\* calls sys.exit(1); in the strict converter open() raises FileNotFoundError.
TInputMissing ==
    /\ tpc = "start"
    /\ tfail' = "missing"
    /\ texit' = 1
    /\ tpc' = "done"
    /\ UNCHANGED << mode, line, trows, emitted, nlines, toutput >>
    /\ UNCHANGED << vars, mvars >>

\* open(input_file) raises another OSError: uncaught, exit status 1.
TOpenFails ==
    /\ tpc = "start"
    /\ tfail' = "fs"
    /\ texit' = 1
    /\ tpc' = "done"
    /\ UNCHANGED << mode, line, trows, emitted, nlines, toutput >>
    /\ UNCHANGED << vars, mvars >>

\* The input file is opened.
TOpen ==
    /\ tpc = "start"
    /\ tpc' = "lines"
    /\ UNCHANGED << mode, line, trows, emitted, nlines, tfail, toutput, texit >>
    /\ UNCHANGED << vars, mvars >>

\* The rows one line adds.
LineRecords(m, raw) == IF m = "lenient" THEN LenientRecords(raw) ELSE StrictRecords(raw)

\* One iteration of `for line in f`.
TReadLine ==
    /\ tpc = "lines"
    /\ nlines < MaxLines
    /\ \E body \in GeneratedLines \cup BoilerplateLines : \E nl \in {<<>>, <<"\n">>} :
          /\ line' = body \o nl
          /\ emitted' = LineRecords(mode, body \o nl)
          /\ trows' = trows \o LineRecords(mode, body \o nl)
    /\ nlines' = nlines + 1
    /\ UNCHANGED << tpc, mode, tfail, toutput, texit >>
    /\ UNCHANGED << vars, mvars >>

\* The end of the input file.
TEndLines ==
    /\ tpc = "lines"
    /\ tpc' = "write"
    /\ UNCHANGED << mode, line, trows, emitted, nlines, tfail, toutput, texit >>
    /\ UNCHANGED << vars, mvars >>

\* The rows are written, the count printed; main returns and the status is 0.
TWrite ==
    /\ tpc = "write"
    /\ toutput' = [headers |-> <<"Name", "Version", "Description">>, rows |-> trows]
    /\ texit' = 0
    /\ tpc' = "done"
    /\ UNCHANGED << mode, line, trows, emitted, nlines, tfail >>
    /\ UNCHANGED << vars, mvars >>

\* open(output_file, "w") raises: uncaught, exit status 1.
TWriteFails ==
    /\ tpc = "write"
    /\ tfail' = "fs"
    /\ texit' = 1
    /\ tpc' = "done"
    /\ UNCHANGED << mode, line, trows, emitted, nlines, toutput >>
    /\ UNCHANGED << vars, mvars >>

TNext ==
    \/ TInputMissing
    \/ TOpenFails
    \/ TOpen
    \/ TReadLine
    \/ TEndLines
    \/ TWrite
    \/ TWriteFails

\* ==================================================== merge_csv_multi_sort.py

\* Most input files of one run.
MaxInputs == 2

\* Most data rows of one input file.
MaxFrameRows == 2

\* The value pandas gives an empty cell. It is no text: no cell text equals it.
NaN == <<"nan">>

\* The header rows of the input files: the key columns, with or without a
\* description, or with a flag column named after a .csv file.
MHeaderForms ==
    { <<"Name", "Version", "Description">>,
      <<"Name", "Version">>,
      <<"Name", "Version", "old.csv">> }

\* The data rows of a file with the given header, one cell per column; the
\* cells are texts pandas reads as strings, or empty.
MRowForms(headers) ==
    IF headers = <<"Name", "Version", "Description">>
    THEN { << <<"a">>, <<"v">>, <<"d">> >>,
           << <<"a">>, <<"v">>, <<>> >>,
           << <<"b">>, <<"v">>, <<"d">> >>,
           << <<"b">>, <<>>, <<>> >> }
    ELSE IF headers = <<"Name", "Version">>
    THEN { << <<"a">>, <<"v">> >>,
           << <<"b">>, <<"v">> >>,
           << <<"a">>, <<>> >> }
    ELSE { << <<"a">>, <<"v">>, <<"Y">> >>,
           << <<"b">>, <<"v">>, <<"N">> >> }

\* What an input file can hold.
Frames ==
    UNION { { [headers |-> h, rows |-> rs] :
                rs \in UNION { [1..m -> MRowForms(h)] : m \in 0..MaxFrameRows } } :
            h \in MHeaderForms }

\* sys.argv[1:-1]: distinct paths, none to MaxInputs of them.
MInputLists ==
    { fs \in UNION { [1..n -> Paths] : n \in 0..MaxInputs } :
          \A a, b \in 1..Len(fs) : a # b => fs[a] # fs[b] }

\* pd.read_csv: the header row gives the columns, an empty cell reads as NaN.
read_csv(file) ==
    [columns |-> file.headers,
     rows |-> [n \in 1..Len(file.rows) |->
                  [c \in 1..Len(file.headers) |->
                      IF file.rows[n][c] = <<>> THEN NaN ELSE file.rows[n][c]]]]

\* col.endswith('.csv')
EndsWithCsv(col) == col \in {"old.csv"}

\* Position of col in columns, 0 when absent.
ColumnIndex(columns, col) ==
    IF \E c \in 1..Len(columns) : columns[c] = col
    THEN CHOOSE c \in 1..Len(columns) : columns[c] = col
    ELSE 0

\* Lines 24-27: the columns of the first file, without those named after a .csv.
KeyColumns(columns) ==
    IF \E c \in 1..Len(columns) : EndsWithCsv(columns[c])
    THEN SelectSeq(columns, LAMBDA col : ~EndsWithCsv(col))
    ELSE columns

\* df[keys]: the cells of the rows under the columns keys.
SelectColumns(rows, columns, keys) ==
    [n \in 1..Len(rows) |->
        [c \in 1..Len(keys) |-> rows[n][ColumnIndex(columns, keys[c])]]]

\* drop_duplicates: the first of equal rows is kept; NaN counts as equal to NaN.
RECURSIVE drop_duplicates(_)
drop_duplicates(rows) ==
    IF rows = <<>> THEN <<>>
    ELSE LET kept == drop_duplicates(SubSeq(rows, 1, Len(rows) - 1))
             r == rows[Len(rows)]
         IN  IF \E n \in 1..Len(kept) : kept[n] = r THEN kept ELSE Append(kept, r)

\* match[k] == row[k]: NaN equals nothing, itself included.
CellEq(a, b) == a # NaN /\ b # NaN /\ a = b

\* check_presence: row holds the cells of one merged row under the columns keys.
check_presence(row, df, keys) ==
    IF \E c \in 1..Len(keys) : ColumnIndex(df.columns, keys[c]) = 0
    THEN FALSE
    ELSE \E n \in 1..Len(df.rows) :
             \A c \in 1..Len(keys) :
                 CellEq(df.rows[n][ColumnIndex(df.columns, keys[c])], row[c])

\* Lines 52-58: the flag columns of the files before the j-th, as [key, val]
\* with the column name as key and as val the index of the file it is computed
\* from; a name already among the columns is not computed again.
RECURSIVE PreviousColumns(_, _)
PreviousColumns(paths, p) ==
    IF p = 0 THEN <<>>
    ELSE LET cols == PreviousColumns(paths, p - 1)
             prev_col == column_name(paths[p])
         IN  IF DictIndex(cols, prev_col) = 0
             THEN Append(cols, [key |-> prev_col, val |-> p])
             ELSE cols

\* Lines 36-65: one iteration of `for file in input_files[1:]`, file being the
\* j-th input file and contents what the first j files hold.
MergeFile(df, keys, paths, contents, j) ==
    LET new_df == SelectColumns(read_csv(contents[j]).rows, contents[j].headers, keys)
        old_df == SelectColumns([n \in 1..Len(df.rows) |-> df.rows[n].cells],
                                df.columns, keys)
        cells == drop_duplicates(old_df \o new_df)
        cols == DictSet(PreviousColumns(paths, j - 1), column_name(paths[j]), j)
    IN  [columns |-> keys,
         flag_columns |-> [c \in 1..Len(cols) |-> cols[c].key],
         rows |-> [n \in 1..Len(cells) |->
                      [cells |-> cells[n],
                       flags |-> [c \in 1..Len(cols) |->
                                     IF check_presence(cells[n], read_csv(contents[cols[c].val]), keys)
                                     THEN "Y" ELSE "N"]]]]

\* sort_values(by=key_columns): ascending, text by code points, NaN last.
CellLess(a, b) == a # NaN /\ (b = NaN \/ StrLess(a, b))

RECURSIVE CellsLess(_, _)
CellsLess(a, b) ==
    /\ a # <<>>
    /\ \/ CellLess(Head(a), Head(b))
       \/ ~CellLess(Head(b), Head(a)) /\ CellsLess(Tail(a), Tail(b))

RECURSIVE sort_values(_, _, _)
sort_values(rows, columns, keys) ==
    IF rows = <<>> THEN <<>>
    ELSE LET sorted == sort_values(SubSeq(rows, 1, Len(rows) - 1), columns, keys)
             r == rows[Len(rows)]
             by(x) == SelectColumns(<<x.cells>>, columns, keys)[1]
             before == SelectSeq(sorted, LAMBDA x : ~CellsLess(by(r), by(x)))
             after == SelectSeq(sorted, LAMBDA x : CellsLess(by(r), by(x)))
         IN  before \o <<r>> \o after

\* to_csv(index=False): the column names, then the rows; NaN is written empty.
to_csv(df) ==
    [headers |-> df.columns \o df.flag_columns,
     rows |-> [n \in 1..Len(df.rows) |->
                  [cells |-> [c \in 1..Len(df.columns) |->
                                 IF df.rows[n].cells[c] = NaN THEN <<>> ELSE df.rows[n].cells[c]],
                   flags |-> df.rows[n].flags]]]

\* ------------------------------------------- the run of merge_csv_multi_sort

MInit ==
    /\ mpc = "start"
    /\ minput_files = <<>>
    /\ mfiles = <<>>
    /\ mi = 0
    /\ key_columns = <<>>
    /\ merged_df = [columns |-> <<>>, flag_columns |-> <<>>, rows |-> <<>>]
    /\ moutput = NoTable
    /\ mexit = -1
    /\ pc = "idle"
    /\ include_description = TRUE
    /\ input_files = <<>>
    /\ files = <<>>
    /\ i = 0
    /\ extensions = <<>>
    /\ all_extensions = <<>>
    /\ file_sources = <<>>
    /\ k = 0
    /\ output_opened = FALSE
    /\ output = NoTable
    /\ failed_reads = {}
    /\ read_done = {}
    /\ exit_code = -1
    /\ tpc = "idle"
    /\ mode = "none"
    /\ line = <<>>
    /\ trows = <<>>
    /\ emitted = <<>>
    /\ nlines = 0
    /\ tfail = "none"
    /\ toutput = NoTable
    /\ texit = -1

\* Lines 6-8: fewer than two input files; the usage is printed and main returns.
MUsage ==
    /\ mpc = "start"
    /\ \E fs \in MInputLists :
          /\ Len(fs) < 2
          /\ minput_files' = fs
    /\ mpc' = "done"
    /\ mexit' = 0
    /\ UNCHANGED << mfiles, mi, key_columns, merged_df, moutput >>
    /\ UNCHANGED << vars, tvars >>

\* Line 10: the input files and the output file are taken from the arguments.
MArguments ==
    /\ mpc = "start"
    /\ \E fs \in MInputLists :
          /\ Len(fs) >= 2
          /\ minput_files' = fs
    /\ mpc' = "exists"
    /\ UNCHANGED << mfiles, mi, key_columns, merged_df, moutput, mexit >>
    /\ UNCHANGED << vars, tvars >>

\* Lines 13-16: an input file does not exist; main prints and returns.
MFileNotFound ==
    /\ mpc = "exists"
    /\ mpc' = "done"
    /\ mexit' = 0
    /\ UNCHANGED << minput_files, mfiles, mi, key_columns, merged_df, moutput >>
    /\ UNCHANGED << vars, tvars >>

\* Lines 19-31: the first file is read, its columns give the key columns and
\* every row of it gets "Y" under the file's column.
MReadFirst ==
    /\ mpc = "exists"
    /\ \E f \in Frames :
          /\ mfiles' = <<f>>
          /\ key_columns' = KeyColumns(read_csv(f).columns)
          /\ merged_df' = [columns |-> read_csv(f).columns,
                           flag_columns |-> <<column_name(minput_files[1])>>,
                           rows |-> [n \in 1..Len(f.rows) |->
                                        [cells |-> read_csv(f).rows[n], flags |-> <<"Y">>]]]
    /\ mi' = 2
    /\ mpc' = "loop"
    /\ UNCHANGED << minput_files, moutput, mexit >>
    /\ UNCHANGED << vars, tvars >>

\* pd.read_csv raises (lines 20, 36): uncaught, exit status 1.
MReadFails ==
    /\ \/ mpc = "exists"
       \/ mpc = "loop" /\ mi <= Len(minput_files)
    /\ mpc' = "done"
    /\ mexit' = 1
    /\ UNCHANGED << minput_files, mfiles, mi, key_columns, merged_df, moutput >>
    /\ UNCHANGED << vars, tvars >>

\* Lines 34-65: one more file is merged and every flag column is computed anew.
MMergeFile ==
    /\ mpc = "loop"
    /\ mi <= Len(minput_files)
    /\ \E f \in Frames :
          /\ \A c \in 1..Len(key_columns) : ColumnIndex(f.headers, key_columns[c]) # 0
          /\ mfiles' = Append(mfiles, f)
          /\ merged_df' = MergeFile(merged_df, key_columns, minput_files,
                                    Append(mfiles, f), mi)
    /\ mi' = mi + 1
    /\ UNCHANGED << mpc, minput_files, key_columns, moutput, mexit >>
    /\ UNCHANGED << vars, tvars >>

\* Line 39: the file lacks a key column; new_df[key_columns] raises KeyError.
MKeyError ==
    /\ mpc = "loop"
    /\ mi <= Len(minput_files)
    /\ \E f \in Frames :
          /\ \E c \in 1..Len(key_columns) : ColumnIndex(f.headers, key_columns[c]) = 0
          /\ mfiles' = Append(mfiles, f)
    /\ mpc' = "done"
    /\ mexit' = 1
    /\ UNCHANGED << minput_files, mi, key_columns, merged_df, moutput >>
    /\ UNCHANGED << vars, tvars >>

\* Lines 68-72: the rows are sorted by the key columns and written; main returns.
MWrite ==
    /\ mpc = "loop"
    /\ mi > Len(minput_files)
    /\ merged_df' = [merged_df EXCEPT
                        !.rows = sort_values(merged_df.rows, merged_df.columns, key_columns)]
    /\ moutput' = to_csv(merged_df')
    /\ mpc' = "done"
    /\ mexit' = 0
    /\ UNCHANGED << minput_files, mfiles, mi, key_columns >>
    /\ UNCHANGED << vars, tvars >>

\* Line 71: to_csv raises (the output cannot be written): uncaught, exit status 1.
MWriteFails ==
    /\ mpc = "loop"
    /\ mi > Len(minput_files)
    /\ merged_df' = [merged_df EXCEPT
                        !.rows = sort_values(merged_df.rows, merged_df.columns, key_columns)]
    /\ mpc' = "done"
    /\ mexit' = 1
    /\ UNCHANGED << minput_files, mfiles, mi, key_columns, moutput >>
    /\ UNCHANGED << vars, tvars >>

MNext ==
    \/ MUsage
    \/ MArguments
    \/ MFileNotFound
    \/ MReadFirst
    \/ MReadFails
    \/ MMergeFile
    \/ MKeyError
    \/ MWrite
    \/ MWriteFails

\* ------------------------------------------------------------ the runs

\* A run of merge_riscv_extensions.py; the converter does not run.
Spec == Init /\ [][Next]_allvars

\* A run of one of the converters; the merge does not run.
SpecTxt == TInit /\ [][TNext]_allvars

\* A run of merge_csv_multi_sort.py; the other scripts do not run.
SpecMulti == MInit /\ [][MNext]_allvars

\* -------------------------------------------- properties of the converters

\* C8: a run ends with exit code 0 only on success, and with a non-zero exit code
\* when the input path is missing, when no data row survived parsing, or on a
\* file-system error.
C8_ExitCodes ==
    tpc = "done" => (texit = 0 <=> (tfail = "none" /\ trows # <<>>))

\* s without its first n whitespace-delimited tokens.
RECURSIVE DropTokens(_, _)
DropTokens(s, n) ==
    IF n = 0 THEN s
    ELSE DropTokens(From(s, WsRun(s, 1) + NsRun(s, WsRun(s, 1) + 1) + 1), n - 1)

\* C9: in strict mode every line that is not noise and has at least three tokens
\* yields exactly one record (first token, second token, rest of the line
\* trimmed), and a line with fewer than three tokens yields no record.
C9_StrictThreeTokens ==
    (mode = "strict" /\ nlines >= 1 /\ ~StrictNoise(line)) =>
        LET toks == Tokens(line)
        IN  IF Len(toks) >= 3
            THEN emitted = << <<toks[1], toks[2], Strip(DropTokens(line, 2))>> >>
            ELSE emitted = <<>>

\* The number of tokens, from the second on, that make the comma-separated
\* version list: it goes on while the token before ends with a comma.
RECURSIVE VersionTokens(_, _)
VersionTokens(toks, j) ==
    IF j < Len(toks) /\ toks[j][Len(toks[j])] = ","
    THEN VersionTokens(toks, j + 1)
    ELSE j

\* The tokens from..to written one after the other.
RECURSIVE Concat(_, _, _)
Concat(toks, from, to) ==
    IF from > to THEN <<>> ELSE toks[from] \o Concat(toks, from + 1, to)

\* A line of the shape the listings have: the name starts with a letter and holds
\* no comma, the version list (the tokens from the second on, up to the first
\* that does not end with a comma) is made of digits and commas, each token
\* digit-led, and what follows is a description without digits or commas.
ListingLine(toks) ==
    LET j == VersionTokens(toks, 2)
    IN  /\ ~Contains(toks[1], <<",">>)
        /\ ~IsDigit(toks[1][1])
        /\ \A n \in 2..j : IsDigit(toks[n][1])
        /\ \A n \in 2..j : \A p \in 1..Len(toks[n]) : IsDigit(toks[n][p]) \/ toks[n][p] = ","
        /\ \A n \in (j + 1)..Len(toks) : \A p \in 1..Len(toks[n]) :
               ~IsDigit(toks[n][p]) /\ toks[n][p] # ","

\* C10: in lenient mode a line whose version has comma-separated sub-tokens, with
\* or without a blank after the comma, with or without a description after the
\* list, yields one record per non-empty sub-version, left to right, all with
\* the name and the description of the line.
C10_CommaExpansion ==
    (mode = "lenient" /\ nlines >= 1 /\ ~LenientNoise(Strip(line))
       /\ Len(Tokens(line)) >= 2 /\ ListingLine(Tokens(line))) =>
        LET toks == Tokens(line)
            j == VersionTokens(toks, 2)
            version == Concat(toks, 2, j)
            subs == SelectSeq(SplitOn(version, ","), LAMBDA v : v # <<>>)
        IN  Contains(version, <<",">>) =>
                emitted = [n \in 1..Len(subs) |->
                              <<toks[1], subs[n], Strip(DropTokens(line, j))>>]

MMerged == mpc = "done" /\ mexit = 0 /\ moutput # NoTable

\* The file holds a row with the cells of the output row r under every key column.
FileHasRow(file, r) ==
    \E n \in 1..Len(file.rows) :
        \A c \in 1..Len(key_columns) :
            file.rows[n][ColumnIndex(file.headers, key_columns[c])] = r.cells[c]

\* The flag the output row r has under the column of the f-th input file.
FlagOf(r, f) ==
    r.flags[ColumnIndex(moutput.headers, column_name(minput_files[f])) - Len(key_columns)]

\* C14: for every row of the merged output and every input file, the file's
\* column is "Y" exactly when the file holds a row equal to the output row on
\* all key columns, and every output row has "Y" under at least one file, rows
\* with an empty key cell included.
C14_PresenceIffFileHasRow ==
    MMerged =>
        \A n \in 1..Len(moutput.rows) :
            /\ \A f \in 1..Len(minput_files) :
                   FlagOf(moutput.rows[n], f) = "Y" <=> FileHasRow(mfiles[f], moutput.rows[n])
            /\ \E f \in 1..Len(minput_files) : FlagOf(moutput.rows[n], f) = "Y"

====
